---- MODULE Spec2Model ----
(***************************************************************************)
(* Verification model of four front-end units of the flow builder UI:      *)
(*   - useDuplicateFlows.handleDuplicate   (bulk duplicate, Promise.all)   *)
(*   - FileRendererComponent               (file row: select / rename)     *)
(*   - getJsApiCode / getNewJsApiCode      (sample code templates)         *)
(*   - ApiModal                            (tweaks re-initialisation)      *)
(* Each unit has its own specification (SpecDup, SpecFile, SpecCode,       *)
(* SpecApi); the variables of the other units stay at their initial value. *)
(***************************************************************************)
EXTENDS Integers, Sequences, FiniteSets, TLC

VARIABLES
    \* ---- useDuplicateFlows ----
    selectedFlowsComponentsCards, \* the selection the hook was rendered with
    allFlows,                     \* ids of the flows in the store
    folderId,                     \* current folder id (Undefined on the root page)
    invs,                         \* one record per handleDuplicate invocation
    created,                      \* addFlow argument -> number of duplicates created
    successData,                  \* number of success notifications shown
    \* ---- FileRendererComponent ----
    props,          \* which of handleFileSelect, handleRemove, handleRename are passed
    file_name,      \* file.name
    file_progress,  \* file.progress: <<>> when absent, <<p>> when present
    selectedFiles,  \* the parent's selection (paths)
    openRename,     \* useState(false)
    newName,        \* useState(file.name): the edit buffer
    event,          \* the DOM event handled by the last step
    call,           \* the callbacks that step invoked, in order
    lastTyped,      \* the last text an onChange delivered (Undefined: none yet)
    \* ---- getJsApiCode / getNewJsApiCode ----
    args,           \* the parameter object of the call
    flowStore,      \* useFlowStore.getState(): inputs and outputs of the flow
    generator,      \* the function that produced code ("none" before any call)
    code,           \* the returned text, as the sequence of its tokens
    \* ---- ApiModal ----
    open,           \* the modal's open flag (the prop, or the component's own state)
    openTweaks,     \* useState(false): the "Temporary overrides" modal
    nodes,          \* useFlowStore nodes, as their number
    initialSetup,   \* the argument of the last newInitialSetup call (<<>>: none yet)
    setupRan,       \* whether the last step called newInitialSetup
    modalEvent      \* what the last step was

dupVars == <<selectedFlowsComponentsCards, allFlows, folderId, invs, created, successData>>
fileVars == <<props, file_name, file_progress, selectedFiles, openRename, newName,
              event, call, lastTyped>>

codeVars == <<args, flowStore, generator, code>>

apiVars == <<open, openTweaks, nodes, initialSetup, setupRan, modalEvent>>

vars == <<dupVars, fileVars, codeVars, apiVars>>

IdleCode ==
    /\ args = <<>>
    /\ flowStore = <<>>
    /\ generator = "none"
    /\ code = <<>>

IdleApi ==
    /\ open = FALSE
    /\ openTweaks = FALSE
    /\ nodes = 0
    /\ initialSetup = <<>>
    /\ setupRan = FALSE
    /\ modalEvent = <<"mount">>

\* JavaScript's undefined, as a string so that it compares with ids and names
Undefined == "undefined"

\* what the actions of one unit leave alone
notDup == <<fileVars, codeVars, apiVars>>
notFile == <<dupVars, codeVars, apiVars>>
notCode == <<dupVars, fileVars, apiVars>>
notApi == <<dupVars, fileVars, codeVars>>

\* the state a unit keeps while another unit's specification runs
IdleFile ==
    /\ props = [handleFileSelect |-> FALSE, handleRemove |-> FALSE, handleRename |-> FALSE]
    /\ file_name = "a.txt"
    /\ file_progress = <<>>
    /\ selectedFiles = {}
    /\ openRename = FALSE
    /\ newName = "a.txt"
    /\ event = <<"mount">>
    /\ call = <<>>
    /\ lastTyped = Undefined


(***************************************************************************)
(* useDuplicateFlows                                                       *)
(***************************************************************************)

\* bound: handleDuplicate is invoked at most this many times in one behaviour
MaxInvocations == 2

FlowIds == {"f1", "f2"}
myCollectionId == "my"
FolderIds == {Undefined, myCollectionId, "other"}

Range(s) == {s[i] : i \in 1..Len(s)}

Call(fn, arg) == [fn |-> fn, arg |-> arg]

\* allFlows.find((flow) => flow.id === selectedFlow)
Find(flows, id) == IF id \in flows THEN id ELSE Undefined

\* faulty variant: fulfilled as soon as one input is fulfilled
PromiseAllRace(req) ==
    IF \E k \in 1..Len(req) : req[k] = "rejected" THEN "rejected"
    ELSE IF Len(req) = 0 \/ \E k \in 1..Len(req) : req[k] = "fulfilled" THEN "fulfilled"
    ELSE "pending"

\* faulty variant: fulfilled once every input has settled, rejected ones included
PromiseAllSettled(req) ==
    IF \A k \in 1..Len(req) : req[k] # "pending" THEN "fulfilled" ELSE "pending"

\* state of the promise Promise.all returns, from the states of its inputs:
\* rejected as soon as one input is rejected, fulfilled once all are fulfilled
PromiseAll(req) ==
    IF \E k \in 1..Len(req) : req[k] = "rejected" THEN "rejected"
    ELSE IF \A k \in 1..Len(req) : req[k] = "fulfilled" THEN "fulfilled"
    ELSE "pending"

\* the reaction registered with .then: queued as a microtask when the promise
\* becomes fulfilled, run once
Reaction(old, new, then) ==
    IF then = "none" /\ old # "fulfilled" /\ new = "fulfilled" THEN "queued" ELSE then

\* the calls the .then callback makes, in order (lines 22-28)
FollowUps(fid) ==
    <<Call("resetFilter", ""), Call("getFoldersApi", "true")>>
    \o (IF fid = Undefined \/ fid = myCollectionId
        THEN <<Call("getFolderById", IF fid # Undefined THEN fid ELSE myCollectionId)>>
        ELSE <<>>)
    \o <<Call("setSelectedFlowsComponentsCards", "[]"),
         Call("setSuccessData", "Flows duplicated successfully")>>

InitDup ==
    /\ selectedFlowsComponentsCards = <<>>
    /\ allFlows \in {FlowIds, FlowIds \ {"f1"}}
    /\ folderId \in FolderIds
    /\ invs = <<>>
    /\ created = [f \in FlowIds \cup {Undefined} |-> 0]
    /\ successData = 0

IdleDup ==
    /\ selectedFlowsComponentsCards = <<>>
    /\ allFlows = FlowIds
    /\ folderId = Undefined
    /\ invs = <<>>
    /\ created = [f \in FlowIds \cup {Undefined} |-> 0]
    /\ successData = 0

\* the user ticks or unticks a card; the hook is rendered again with the new list
ToggleCard(id) ==
    /\ selectedFlowsComponentsCards' =
         IF id \in Range(selectedFlowsComponentsCards)
         THEN SelectSeq(selectedFlowsComponentsCards, LAMBDA x : x # id)
         ELSE Append(selectedFlowsComponentsCards, id)
    /\ UNCHANGED <<allFlows, folderId, invs, created, successData>>
    /\ UNCHANGED notDup

\* handleDuplicate(): one addFlow(true, flow) per selected id, Promise.all over them,
\* .then registered on the result
NewInvocation(ids, flows, fid) ==
    LET req == [k \in 1..Len(ids) |-> "pending"]
    IN [ids |-> ids,
        folderId |-> fid,
        req |-> req,
        settled |-> <<>>,
        all |-> PromiseAll(req),
        then |-> Reaction("pending", PromiseAll(req), "none"),
        log |-> [k \in 1..Len(ids) |-> Call("addFlow", Find(flows, ids[k]))]]

HandleDuplicate ==
    /\ Len(invs) < MaxInvocations
    /\ invs' = Append(invs, NewInvocation(selectedFlowsComponentsCards, allFlows, folderId))
    /\ UNCHANGED <<selectedFlowsComponentsCards, allFlows, folderId, created, successData>>
    /\ UNCHANGED notDup

\* the k-th request of invocation i settles
Settle(inv, k, how) ==
    LET req == [inv.req EXCEPT ![k] = how]
    IN [inv EXCEPT !.req = req,
                   !.settled = Append(@, k),
                   !.all = PromiseAll(req),
                   !.then = Reaction(inv.all, PromiseAll(req), inv.then)]

AddFlowFulfil(i, k) ==
    /\ invs[i].req[k] = "pending"
    /\ invs' = [invs EXCEPT ![i] = Settle(invs[i], k, "fulfilled")]
    /\ created' = [created EXCEPT ![invs[i].log[k].arg] = @ + 1]
    /\ UNCHANGED <<selectedFlowsComponentsCards, allFlows, folderId, successData>>
    /\ UNCHANGED notDup

AddFlowReject(i, k) ==
    /\ invs[i].req[k] = "pending"
    /\ invs' = [invs EXCEPT ![i] = Settle(invs[i], k, "rejected")]
    /\ UNCHANGED <<selectedFlowsComponentsCards, allFlows, folderId, created, successData>>
    /\ UNCHANGED notDup

\* faulty variant: the callback without setSelectedFlowsComponentsCards([])
ThenNoClear(i) ==
    /\ invs[i].then = "queued"
    /\ invs' = [invs EXCEPT ![i].then = "done",
                            ![i].log = @ \o FollowUps(invs[i].folderId)]
    /\ successData' = successData + 1
    /\ UNCHANGED <<selectedFlowsComponentsCards, allFlows, folderId, created>>
    /\ UNCHANGED notDup

\* the .then callback of invocation i (lines 21-29)
ThenCallback(i) ==
    /\ invs[i].then = "queued"
    /\ invs' = [invs EXCEPT ![i].then = "done",
                            ![i].log = @ \o FollowUps(invs[i].folderId)]
    /\ selectedFlowsComponentsCards' = <<>>
    /\ successData' = successData + 1
    /\ UNCHANGED <<allFlows, folderId, created>>
    /\ UNCHANGED notDup

NextDup ==
    \/ \E id \in FlowIds : ToggleCard(id)
    \/ HandleDuplicate
    \/ \E i \in 1..Len(invs) : \E k \in 1..Len(invs[i].req) : AddFlowFulfil(i, k)
    \/ \E i \in 1..Len(invs) : \E k \in 1..Len(invs[i].req) : AddFlowReject(i, k)
    \/ \E i \in 1..Len(invs) : ThenCallback(i)

InitSpecDup == InitDup /\ IdleFile /\ IdleCode /\ IdleApi

SpecDup == InitSpecDup /\ [][NextDup]_vars

\* ---- properties of handleDuplicate ----

Requests == UNION {{<<i, k>> : k \in 1..Len(invs[i].req)} : i \in 1..Len(invs)}
AllFulfilled(inv) == \A k \in 1..Len(inv.req) : inv.req[k] = "fulfilled"
SomeRejected(inv) == \E k \in 1..Len(inv.req) : inv.req[k] = "rejected"
SomePending(inv) == \E k \in 1..Len(inv.req) : inv.req[k] = "pending"
\* the part of an invocation's log after its addFlow calls
After(inv) == SubSeq(inv.log, Len(inv.ids) + 1, Len(inv.log))
\* number of fulfilled requests that were issued with argument a
FulfilledWith(a) ==
    Cardinality({p \in Requests : /\ invs[p[1]].req[p[2]] = "fulfilled"
                                  /\ invs[p[1]].log[p[2]].arg = a})
\* the step runs the .then callback of invocation i
RunsThen(i) == invs[i].then # "done" /\ invs'[i].then = "done"
\* the step rejects a request of invocation i
Rejects(i) == \E k \in 1..Len(invs[i].req) :
                 invs[i].req[k] = "pending" /\ invs'[i].req[k] = "rejected"

\* C1: one invocation of handleDuplicate issues exactly one addFlow request per
\* selected id, in order, with the flow found for that id, and never another one;
\* the follow-up calls are in its log only when no request of it is pending.
C1_OneRequestPerIdThenAfterAll ==
    \A i \in 1..Len(invs) :
        LET inv == invs[i] IN
        /\ Len(inv.req) = Len(inv.ids)
        /\ Len(inv.log) >= Len(inv.ids)
        /\ \A k \in 1..Len(inv.ids) : inv.log[k] = Call("addFlow", Find(allFlows, inv.ids[k]))
        /\ \A k \in 1..Len(After(inv)) : After(inv)[k].fn # "addFlow"
        /\ (inv.then = "done" \/ After(inv) # <<>>) => ~SomePending(inv)

C1_Witness ==
    \E i \in 1..Len(invs) :
        /\ Len(invs[i].ids) = 2
        /\ invs[i].then = "done"
        /\ After(invs[i]) # <<>>

C2_State ==
    /\ \A i \in 1..Len(invs) :
          SomeRejected(invs[i]) =>
              /\ invs[i].then = "none"
              /\ invs[i].all = "rejected"
              /\ After(invs[i]) = <<>>
    /\ \A a \in DOMAIN created : created[a] = FulfilledWith(a)

C2_Step ==
    /\ Len(invs') >= Len(invs)
    /\ \A i \in 1..Len(invs) :
          /\ Rejects(i) => UNCHANGED <<selectedFlowsComponentsCards, successData, created>>
          /\ RunsThen(i) => AllFulfilled(invs[i])
    /\ successData' # successData => \E i \in 1..Len(invs) : RunsThen(i)
    /\ \A a \in DOMAIN created : created'[a] >= created[a]

\* C2: an invocation with a rejected request never runs its follow-ups and logs
\* nothing beyond its addFlow calls; every fulfilled request's duplicate is kept;
\* the step that rejects a request changes neither selection, notifications nor
\* duplicates; only an invocation whose requests all succeeded runs the callback.
C2_NoCompensationOnFailure == [](C2_State) /\ [][C2_Step]_vars

C2_Witness ==
    \E i \in 1..Len(invs) :
        /\ invs[i].req = <<"fulfilled", "rejected">>
        /\ created[invs[i].log[1].arg] >= 1
        /\ selectedFlowsComponentsCards # <<>>

C3_State ==
    /\ \A i \in 1..Len(invs) :
          /\ AllFulfilled(invs[i]) => invs[i].then \in {"queued", "done"}
          /\ invs[i].then = "done" => After(invs[i]) = FollowUps(invs[i].folderId)
          /\ invs[i].then # "done" => After(invs[i]) = <<>>
    /\ (\A i \in 1..Len(invs) : AllFulfilled(invs[i]) /\ invs[i].then = "done") =>
          /\ successData = Len(invs)
          /\ \A a \in DOMAIN created :
                created[a] = Cardinality({p \in Requests : invs[p[1]].log[p[2]].arg = a})

C3_Step ==
    \A i \in 1..Len(invs) :
        /\ RunsThen(i) => /\ selectedFlowsComponentsCards' = <<>>
                          /\ successData' = successData + 1
        /\ invs[i].then = "done" => invs'[i] = invs[i]

\* C3: whatever the order in which the requests of an invocation are fulfilled,
\* its callback runs once: the log holds the follow-ups exactly once, the step
\* that runs it empties the selection and adds one notification, and once every
\* invocation is through, notifications and duplicates are a function of the inputs.
C3_AnyOrderSameResult == [](C3_State) /\ [][C3_Step]_vars

C3_Witness ==
    \E i \in 1..Len(invs) :
        /\ invs[i].settled = <<2, 1>>
        /\ invs[i].then = "done"
        /\ selectedFlowsComponentsCards = <<>>
        /\ successData >= 1

(***************************************************************************)
(* FileRendererComponent                                                   *)
(***************************************************************************)

\* file.progress of a failed upload
UploadFailed == -1

Texts == {"a.txt", "b.txt", "c.txt"}
Keys == {"Enter", "Escape", "x"}
file_id == "id-1"
file_path == "dir/a.txt"
\* progress as a percentage: a fraction p in [0,1] is 100 * p
ProgressValues == {<<>>, <<UploadFailed>>, <<0>>, <<50>>, <<100>>}

FCall(fn, argv) == [fn |-> fn, args |-> argv]

\* !file.progress: undefined and 0 are falsy, every other number is truthy
NotProgress(progress) == progress = <<>> \/ progress[1] = 0

\* faulty variant: no effect, the buffer keeps what was typed
RenameEffectMissing(wasOpen, isOpen, buffer, name) == buffer

\* useEffect(() => setNewName(file.name), [openRename]): runs after a render in
\* which openRename changed
RenameEffect(wasOpen, isOpen, buffer, name) ==
    IF wasOpen # isOpen THEN name ELSE buffer

\* the parent's handleFileSelect: toggles the path in its selection
ParentSelect(sel, path) == IF path \in sel THEN sel \ {path} ELSE sel \cup {path}

\* the callbacks a step invoked reach the parent
Deliver(calls) ==
    selectedFiles' = IF \E k \in 1..Len(calls) : calls[k].fn = "handleFileSelect"
                     THEN ParentSelect(selectedFiles, file_path)
                     ELSE selectedFiles

InitFile ==
    /\ props \in [handleFileSelect : BOOLEAN, handleRemove : BOOLEAN, handleRename : BOOLEAN]
    /\ file_name \in Texts
    /\ file_progress \in ProgressValues
    /\ selectedFiles = {}
    /\ openRename = FALSE
    /\ newName = file_name
    /\ event = <<"mount">>
    /\ call = <<>>
    /\ lastTyped = Undefined

\* what a handler that sets openRename to open and invokes calls leaves behind,
\* the render that follows and its effect included
Handled(isOpen, calls) ==
    /\ openRename' = isOpen
    /\ call' = calls
    /\ newName' = RenameEffect(openRename, isOpen, newName, file_name)
    /\ Deliver(calls)
    /\ UNCHANGED <<props, file_name, file_progress, lastTyped>>
    /\ UNCHANGED notFile

\* onClick of the row (lines 46-48)
RowClick ==
    /\ event' = <<"click", "row">>
    /\ Handled(openRename,
            IF NotProgress(file_progress) /\ props.handleFileSelect
            THEN <<FCall("handleFileSelect", <<file_path>>)>> ELSE <<>>)

\* onCheckedChange of the checkbox (lines 51-64); the wrapper takes no pointer
\* events while progress is present, the keyboard still reaches the checkbox
CheckboxChange(via) ==
    /\ props.handleFileSelect
    /\ via = "pointer" => file_progress = <<>>
    /\ event' = <<"change", "checkbox">>
    /\ Handled(openRename,
               <<FCall("handleFileSelect", <<file_path>>)>>)

\* onDoubleClick of the name (lines 104-116); the span takes no pointer events
\* when the upload failed
NameDoubleClick ==
    /\ ~openRename
    /\ file_progress # <<UploadFailed>>
    /\ event' = <<"dblclick", "name">>
    /\ Handled(               IF NotProgress(file_progress) THEN TRUE ELSE openRename, <<>>)

\* onChange of the input (line 88)
InputChange(v) ==
    /\ openRename
    /\ event' = <<"change", "input">>
    /\ newName' = v
    /\ lastTyped' = v
    /\ call' = <<>>
    /\ UNCHANGED <<props, file_name, file_progress, selectedFiles, openRename>>
    /\ UNCHANGED notFile

\* faulty variant: the callback gets file.name instead of the buffer
CommitOldName ==
    Handled(FALSE,
            IF props.handleRename
            THEN <<FCall("handleRename", <<file_id, file_name>>)>> ELSE <<>>)

\* setOpenRename(false); handleRename?.(file.id, newName)  (lines 90-91, 95-96)
Commit ==
    Handled(FALSE,
            IF props.handleRename
            THEN <<FCall("handleRename", <<file_id, newName>>)>> ELSE <<>>)

\* onBlur of the input (lines 89-92)
InputBlur ==
    /\ openRename
    /\ event' = <<"blur", "input">>
    /\ Commit

\* onKeyDown of the input (lines 93-98)
InputKeyDown(key) ==
    /\ openRename
    /\ event' = <<"keydown", key>>
    /\ IF key = "Enter" THEN Commit ELSE Handled(openRename, <<>>)

\* onClick of the input (line 99): stopPropagation only
InputClick ==
    /\ openRename
    /\ event' = <<"click", "input">>
    /\ Handled(openRename, <<>>)

\* faulty variant: the click restarts the upload
TryAgainRetries ==
    /\ file_progress = <<UploadFailed>>
    /\ event' = <<"click", "tryAgain">>
    /\ file_progress' = <<0>>
    /\ call' = <<>>
    /\ UNCHANGED <<props, file_name, selectedFiles, openRename, newName, lastTyped>>
    /\ UNCHANGED notFile

\* onClick of "try again?" (lines 126-128): stopPropagation only
TryAgainClick ==
    /\ file_progress = <<UploadFailed>>
    /\ event' = <<"click", "tryAgain">>
    /\ Handled(openRename, <<>>)

\* onClick of the X button (lines 143-146)
RemoveClick ==
    /\ props.handleRemove
    /\ event' = <<"click", "remove">>
    /\ Handled(openRename,
               <<FCall("handleRemove", <<file_path>>)>>)

\* the context menu's rename item calls handleOpenRename (lines 31-33, 153-157)
ContextMenuRename ==
    /\ ~props.handleRemove
    /\ file_progress = <<>>
    /\ event' = <<"select", "rename">>
    /\ Handled(               IF props.handleRename THEN TRUE ELSE openRename, <<>>)

\* the parent passes a file with another progress, or another name
FileProgressChanges(p) ==
    /\ p # file_progress
    /\ file_progress' = p
    /\ event' = <<"props", "progress">>
    /\ call' = <<>>
    /\ UNCHANGED <<props, file_name, selectedFiles, openRename, newName, lastTyped>>
    /\ UNCHANGED notFile

FileNameChanges(v) ==
    /\ v # file_name
    /\ file_name' = v
    /\ event' = <<"props", "name">>
    /\ call' = <<>>
    /\ UNCHANGED <<props, file_progress, selectedFiles, openRename, newName, lastTyped>>
    /\ UNCHANGED notFile

NextFile ==
    \/ RowClick
    \/ \E via \in {"pointer", "keyboard"} : CheckboxChange(via)
    \/ NameDoubleClick
    \/ \E v \in Texts : InputChange(v)
    \/ InputBlur
    \/ \E key \in Keys : InputKeyDown(key)
    \/ InputClick
    \/ TryAgainClick
    \/ RemoveClick
    \/ ContextMenuRename
    \/ \E p \in ProgressValues : FileProgressChanges(p)
    \/ \E v \in Texts : FileNameChanges(v)

InitSpecFile == InitFile /\ IdleDup /\ IdleCode /\ IdleApi

SpecFile == InitSpecFile /\ [][NextFile]_vars

\* ---- properties of FileRendererComponent ----

RenameCall(text) ==
    IF props.handleRename THEN <<FCall("handleRename", <<file_id, text>>)>> ELSE <<>>

C4_Step ==
    openRename =>
        /\ event' \in {<<"keydown", "Enter">>, <<"blur", "input">>} =>
              ~openRename' /\ call' = RenameCall(newName)
        /\ (event'[1] = "keydown" /\ event'[2] # "Enter") =>
              openRename' /\ call' = <<>> /\ newName' = newName

\* C4: with the rename input open, Enter and blur close rename mode and invoke
\* handleRename (when passed) once with file.id and the text in the input; any
\* other key invokes nothing and leaves rename mode open.
C4_EnterCommitsTypedName == [][C4_Step]_vars

C4_Witness ==
    /\ event = <<"keydown", "Enter">>
    /\ ~openRename
    /\ call = <<FCall("handleRename", <<file_id, lastTyped>>)>>
    /\ lastTyped # file_name

C5_Step ==
    event' = <<"click", "tryAgain">> =>
        /\ file_progress = <<UploadFailed>>
        /\ call' = <<>>
        /\ UNCHANGED <<file_progress, file_name, selectedFiles, openRename, newName>>

\* C5: clicking "try again?" on a failed upload invokes no callback and changes
\* neither the file, the selection nor the rename state.
C5_TryAgainDoesNothing == [][C5_Step]_vars

C5_Witness ==
    /\ event = <<"click", "tryAgain">>
    /\ file_progress = <<UploadFailed>>
    /\ props.handleFileSelect /\ props.handleRemove /\ props.handleRename
    /\ call = <<>>

\* C8: while file.progress is present (0 included), a row click invokes no
\* handleFileSelect and a double click on the name does not open rename mode.
C8_NoSelectNoRenameWhileUploading ==
    file_progress # <<>> =>
        /\ ~(event = <<"click", "row">> /\ call # <<>>)
        /\ ~(event = <<"dblclick", "name">> /\ openRename)

C9_Step == (~openRename /\ openRename') => newName' = file_name'

\* C9: whenever rename mode opens, the edit buffer is file.name.
C9_BufferStartsAtFileName == [][C9_Step]_vars

C9_Witness ==
    /\ openRename
    /\ event \in {<<"dblclick", "name">>, <<"select", "rename">>}
    /\ lastTyped \notin {Undefined, file_name}
    /\ newName = file_name

(***************************************************************************)
(* getJsApiCode / getNewJsApiCode                                          *)
(***************************************************************************)

\* bound: a flow declares at most this many inputs, and as many outputs
MaxPorts == 2

protocol == "http:"
host == "localhost:7860"
InputTypes == {"ChatInput", "TextInput"}
OutputTypes == {"ChatOutput", "TextOutput"}
Ports(types) == UNION {[1..n -> [type : types]] : n \in 0..MaxPorts}

\* a tweaks argument: undefined, or an object of component -> field -> value
NoTweaks == [defined |-> FALSE, entries |-> <<>>]
EmptyTweaks == [defined |-> TRUE, entries |-> <<>>]
SomeTweaks ==
    [defined |-> TRUE,
     entries |-> <<[key |-> "ChatInput-1",
                    fields |-> <<[key |-> "input_value", value |-> "hello"]>>]>>]
TweakChoices == {NoTweaks, EmptyTweaks, SomeTweaks}

\* truthiness of a tweaks argument: an object is truthy, also when empty
Truthy(t) == t.defined
\* a || b on strings: undefined and "" are falsy
Or(a, b) == IF a = Undefined \/ a = "" THEN b ELSE a
\* a boolean interpolated into a template literal
BoolStr(b) == IF b THEN "true" ELSE "false"

RECURSIVE Pad(_)
Pad(n) == IF n = 0 THEN "" ELSE " " \o Pad(n - 1)

RECURSIVE JoinLines(_)
JoinLines(lines) ==
    IF Len(lines) = 0 THEN ""
    ELSE IF Len(lines) = 1 THEN lines[1]
    ELSE lines[1] \o ",\n" \o JoinLines(Tail(lines))

\* JSON.stringify(value, null, indent) of an object at a nesting level
Block(lines, indent, level) ==
    IF Len(lines) = 0 THEN "{}"
    ELSE "{\n" \o JoinLines(lines) \o "\n" \o Pad(indent * (level - 1)) \o "}"

StringifyFields(fields, indent, level) ==
    Block([k \in 1..Len(fields) |->
               Pad(indent * level) \o "\"" \o fields[k].key \o "\": \""
               \o fields[k].value \o "\""],
          indent, level)

JSONStringify(t, indent) ==
    Block([k \in 1..Len(t.entries) |->
               Pad(indent) \o "\"" \o t.entries[k].key \o "\": "
               \o StringifyFields(t.entries[k].fields, indent, 2)],
          indent, 1)

\* faulty variant: hasChatInput and hasChatOutput swapped in the template
getJsApiCodeSwapped(a, store) ==
    LET tweaksString == IF Truthy(a.tweaks) THEN JSONStringify(a.tweaks, 8) ELSE "{}"
        hasChatInput == \E k \in 1..Len(store.inputs) : store.inputs[k].type = "ChatInput"
        hasChatOutput == \E k \in 1..Len(store.outputs) : store.outputs[k].type = "ChatOutput"
    IN  (IF a.activeTweaks THEN <<>>
         ELSE <<"let inputValue = \"\";", "// Insert input value here">>)
        \o <<"fetch(",
             "\"" \o protocol \o "//" \o host \o "/api/v1/run/"
                  \o Or(a.endpointName, a.flowId) \o "?stream=false\"",
             ",", "{", "method:", "\"POST\"", ",", "headers:", "{",
             "\"Authorization\":", "\"Bearer <TOKEN>\"", ",",
             "\"Content-Type\":", "\"application/json\"", ",">>
        \o (IF a.isAuth THEN <<"\"x-api-key\":", "<your api key>">> ELSE <<>>)
        \o <<"}", ",", "body:", "JSON.stringify(", "{">>
        \o (IF a.activeTweaks THEN <<>> ELSE <<"input_value:", "inputValue", ",">>)
        \o <<"output_type:", IF hasChatInput THEN "\"chat\"" ELSE "\"text\"", ",",
             "input_type:", IF hasChatOutput THEN "\"chat\"" ELSE "\"text\"", ",",
             "tweaks:", tweaksString, "}", ")", ",", "}", ",", ")",
             ".then(res => res.json())", ".then(data => console.log(data))",
             ".catch(error => console.error('Error:', error))", ";">>

\* getJsApiCode (lines 127-161)
getJsApiCode(a, store) ==
    LET tweaksString == IF Truthy(a.tweaks) THEN JSONStringify(a.tweaks, 8) ELSE "{}"
        hasChatInput == \E k \in 1..Len(store.inputs) : store.inputs[k].type = "ChatInput"
        hasChatOutput == \E k \in 1..Len(store.outputs) : store.outputs[k].type = "ChatOutput"
    IN  (IF a.activeTweaks THEN <<>>
         ELSE <<"let inputValue = \"\";", "// Insert input value here">>)
        \o <<"fetch(",
             "\"" \o protocol \o "//" \o host \o "/api/v1/run/"
                  \o Or(a.endpointName, a.flowId) \o "?stream=false\"",
             ",", "{", "method:", "\"POST\"", ",", "headers:", "{",
             "\"Authorization\":", "\"Bearer <TOKEN>\"", ",",
             "\"Content-Type\":", "\"application/json\"", ",">>
        \o (IF a.isAuth THEN <<"\"x-api-key\":", "<your api key>">> ELSE <<>>)
        \o <<"}", ",", "body:", "JSON.stringify(", "{">>
        \o (IF a.activeTweaks THEN <<>> ELSE <<"input_value:", "inputValue", ",">>)
        \o <<"output_type:", IF hasChatOutput THEN "\"chat\"" ELSE "\"text\"", ",",
             "input_type:", IF hasChatInput THEN "\"chat\"" ELSE "\"text\"", ",",
             "tweaks:", tweaksString, "}", ")", ",", "}", ",", ")",
             ".then(res => res.json())", ".then(data => console.log(data))",
             ".catch(error => console.error('Error:', error))", ";">>

\* getNewJsApiCode (lines 163-215)
getNewJsApiCode(a) ==
    LET apiUrl == protocol \o "//" \o host \o "/api/v1/run/" \o a.flowId
        tweaksString == IF Truthy(a.tweaks) /\ a.activeTweaks
                        THEN JSONStringify(a.tweaks, 2) ELSE "{}"
    IN  <<"const", "payload", "=", "{",
          "\"input_value\":", "\"" \o a.input_value \o "\"", ",",
          "\"output_type\":", "\"" \o a.output_type \o "\"", ",",
          "\"input_type\":", "\"" \o a.input_type \o "\"">>
        \o (IF a.activeTweaks /\ Truthy(a.tweaks)
            THEN <<",", "\"tweaks\":", tweaksString>> ELSE <<>>)
        \o <<"}", ";",
             "const", "options", "=", "{", "method:", "'POST'", ",", "headers:", "{",
             "'Content-Type':", "'application/json'">>
        \o (IF a.isAuth THEN <<",", "\"x-api-key\":", "\"YOUR-API-KEY\"">> ELSE <<>>)
        \o <<"}", ",", "body:", "JSON.stringify(payload)", "}", ";",
             "fetch(", "'" \o apiUrl \o "?stream=" \o BoolStr(a.streaming) \o "'", ")",
             ".then(response => response.json())",
             ".then(response => console.log(response))",
             ".catch(err => console.error(err))", ";">>

ArgChoices ==
    [flowId : {"flow-1", "flow-2"},
     endpointName : {Undefined, "", "my-endpoint"},
     isAuth : BOOLEAN,
     tweaks : TweakChoices,
     activeTweaks : BOOLEAN,
     streaming : BOOLEAN,
     input_value : {"hello"},
     input_type : {"chat", "text"},
     output_type : {"chat", "text"}]

InitCode ==
    /\ args \in ArgChoices
    /\ flowStore \in [inputs : Ports(InputTypes), outputs : Ports(OutputTypes)]
    /\ generator = "none"
    /\ code = <<>>

CallGetJsApiCode ==
    /\ generator' = "getJsApiCode"
    /\ code' = getJsApiCode(args, flowStore)
    /\ UNCHANGED <<args, flowStore>>
    /\ UNCHANGED notCode

CallGetNewJsApiCode ==
    /\ generator' = "getNewJsApiCode"
    /\ code' = getNewJsApiCode(args)
    /\ UNCHANGED <<args, flowStore>>
    /\ UNCHANGED notCode

NextCode ==
    \/ CallGetJsApiCode
    \/ CallGetNewJsApiCode

InitSpecCode == InitCode /\ IdleDup /\ IdleFile /\ IdleApi

SpecCode == InitSpecCode /\ [][NextCode]_vars

\* ---- properties of the generated code ----

\* reading the generated code back
First(seq, tok) == CHOOSE i \in 1..Len(seq) : seq[i] = tok /\ \A j \in 1..(i - 1) : seq[j] # tok
Has(seq, tok) == \E i \in 1..Len(seq) : seq[i] = tok
\* the token that follows the first occurrence of tok
ValueAfter(seq, tok) == seq[First(seq, tok) + 1]
\* the tokens from the first occurrence of opening up to the next closing
Inside(seq, opening, closing) ==
    LET from == First(seq, opening)
        rest == SubSeq(seq, from + 1, Len(seq))
    IN SubSeq(rest, 1, First(rest, closing) - 1)
AfterToken(seq, tok) == SubSeq(seq, First(seq, tok) + 1, Len(seq))

Payload == Inside(AfterToken(code, "payload"), "{", "}")
Options == AfterToken(code, "options")
FetchArguments == Inside(code, "fetch(", ")")

NewJsPayloadAndOptions ==
    generator = "getNewJsApiCode" =>
        /\ ValueAfter(Payload, "\"input_value\":") = "\"" \o args.input_value \o "\""
        /\ ValueAfter(Payload, "\"input_type\":") = "\"" \o args.input_type \o "\""
        /\ ValueAfter(Payload, "\"output_type\":") = "\"" \o args.output_type \o "\""
        /\ Has(Payload, "\"tweaks\":") <=> (args.activeTweaks /\ args.tweaks.defined)
        /\ ValueAfter(Options, "method:") = "'POST'"
        /\ ValueAfter(Options, "body:") = "JSON.stringify(payload)"
        /\ FetchArguments[1] = "'http://localhost:7860/api/v1/run/" \o args.flowId
                                \o "?stream=" \o BoolStr(args.streaming) \o "'"

\* C6: the code getNewJsApiCode returns posts a JSON body to /api/v1/run/<flowId>:
\* the payload has input_value, input_type and output_type, has tweaks exactly
\* when activeTweaks is set and a tweaks object is given, the options hold method
\* POST and the payload as body, and fetch is called with the url and the options.
C6_NewJsCodePostsPayload ==
    /\ NewJsPayloadAndOptions
    /\ generator = "getNewJsApiCode" => Has(FetchArguments, "options")

\* C7: in the code getJsApiCode returns, output_type is "chat" exactly when an
\* output of the flow is a ChatOutput, input_type is "chat" exactly when an input
\* is a ChatInput, and both are "text" otherwise, whatever the other parameters.
C7_PortsDecideChatOrText ==
    generator = "getJsApiCode" =>
        /\ ValueAfter(code, "output_type:") =
             IF [type |-> "ChatOutput"] \in Range(flowStore.outputs)
             THEN "\"chat\"" ELSE "\"text\""
        /\ ValueAfter(code, "input_type:") =
             IF [type |-> "ChatInput"] \in Range(flowStore.inputs)
             THEN "\"chat\"" ELSE "\"text\""

C7_Witness ==
    /\ generator = "getJsApiCode"
    /\ [type |-> "ChatOutput"] \in Range(flowStore.outputs)
    /\ [type |-> "ChatInput"] \notin Range(flowStore.inputs)
    /\ Len(flowStore.inputs) > 0
    /\ args.activeTweaks /\ args.tweaks = SomeTweaks /\ args.isAuth
    /\ ValueAfter(code, "output_type:") = "\"chat\""
    /\ ValueAfter(code, "input_type:") = "\"text\""

(***************************************************************************)
(* ApiModal                                                                *)
(***************************************************************************)

\* bound: the flow has at most this many nodes
MaxNodes == 2

\* faulty variant: no dependency array, the effect runs after every render
EffectEveryRender(wasOpen, isOpen) == isOpen

\* useEffect(() => { if (open) newInitialSetup(nodes) }, [open])  (lines 39-41):
\* after the first render, and after every render in which open changed
Effect(wasOpen, isOpen) == isOpen /\ wasOpen # isOpen

\* the render after a state change, with its effect
Rendered(wasOpen) ==
    /\ setupRan' = Effect(wasOpen, open')
    /\ initialSetup' = IF Effect(wasOpen, open') THEN <<nodes'>> ELSE initialSetup

InitApi ==
    /\ open \in BOOLEAN
    /\ openTweaks = FALSE
    /\ nodes \in 0..MaxNodes
    /\ setupRan = open
    /\ initialSetup = IF open THEN <<nodes>> ELSE <<>>
    /\ modalEvent = <<"mount">>

\* setOpen of the modal (line 45), or the parent passing another open
SetOpen(b) ==
    /\ open' = b
    /\ modalEvent' = <<"setOpen", BoolStr(b)>>
    /\ UNCHANGED <<openTweaks, nodes>>
    /\ Rendered(open)
    /\ UNCHANGED notApi

\* onClick of the "Temporary overrides" button (lines 72-78)
TweaksButtonClick ==
    /\ nodes > 0
    /\ openTweaks' = TRUE
    /\ modalEvent' = <<"click", "tweaks">>
    /\ UNCHANGED <<open, nodes>>
    /\ Rendered(open)
    /\ UNCHANGED notApi

\* setOpen of the second modal (lines 100-102)
SetOpenTweaks(b) ==
    /\ openTweaks' = b
    /\ modalEvent' = <<"setOpenTweaks", BoolStr(b)>>
    /\ UNCHANGED <<open, nodes>>
    /\ Rendered(open)
    /\ UNCHANGED notApi

\* the flow store publishes other nodes (line 30)
NodesChange(n) ==
    /\ n # nodes
    /\ nodes' = n
    /\ modalEvent' = <<"nodes">>
    /\ UNCHANGED <<open, openTweaks>>
    /\ Rendered(open)
    /\ UNCHANGED notApi

NextApi ==
    \/ \E b \in BOOLEAN : SetOpen(b)
    \/ TweaksButtonClick
    \/ \E b \in BOOLEAN : SetOpenTweaks(b)
    \/ \E n \in 0..MaxNodes : NodesChange(n)

InitSpecApi == InitApi /\ IdleDup /\ IdleFile /\ IdleCode

SpecApi == InitSpecApi /\ [][NextApi]_vars

\* ---- properties of ApiModal ----

C10_Step ==
    /\ setupRan' <=> (~open /\ open')
    /\ setupRan' => initialSetup' = <<nodes'>>
    /\ ~setupRan' => initialSetup' = initialSetup
    /\ openTweaks' # openTweaks => ~setupRan'

\* C10: newInitialSetup is called, with the nodes of that render, in exactly the
\* steps that take the modal from closed to open; a step that leaves it closed,
\* closes it, or opens or closes the overrides modal calls nothing.
C10_SetupOnEveryOpening == [][C10_Step]_vars

C10_Witness ==
    /\ modalEvent = <<"setOpen", "true">>
    /\ setupRan
    /\ openTweaks
    /\ nodes = MaxNodes
    /\ initialSetup = <<nodes>>

====
